---- MODULE Spec2Model ----
(***************************************************************************)
(* Conversation pipeline of the rental-listing chat service:               *)
(*   ChatService.handle_chat      (src/app/services/chat_service.py)       *)
(*   QueryParser.parse            (src/app/services/query_parser.py)       *)
(*   HouseSearchQuery.from_dict   (src/app/core/search_schema.py)          *)
(*   OpenAIClient.generate_reply  (src/app/core/llm/openai_client.py)      *)
(*   HouseRepository.query_houses (src/data/house_repository.py)           *)
(*   render_prompt                (src/app/core/prompt_manager.py)         *)
(*                                                                         *)
(* A Python str is a sequence of one-character strings.  A character       *)
(* outside ASCII is written by its code point ("U+5357").  A fixed message *)
(* of the source is one atom naming it; it contains no whitespace, no code *)
(* fence and no upper-case letter that the operations below would act on.  *)
(***************************************************************************)
EXTENDS Integers, Sequences, FiniteSets, TLC

VARIABLES
    history,    \* ChatService.history: sequence of [role, content]
    client,     \* ChatService._client: which BaseLLMClient was constructed
    repo,       \* ChatService.repo: [configured, data]
    call,       \* the request being served by routes.chat (Idle between requests)
    expected,   \* the (text, reply) pairs of the completed turns since the last reset
    shadow,     \* history of the run that never made the turns whose generation raised
    lastFailed, \* trimmed text of the latest turn whose generation raised, if pending
    parseIn,    \* decoded JSON value handed to the parsing functions
    parseOp,    \* which parsing function ran on parseIn
    parseOut,   \* what it returned or raised
    repoCall,   \* one HouseRepository and the query_houses call made on it
    houseRepo,  \* a HouseRepository in use and the records its caller holds
    inflight    \* the requests the server threads are serving at the same time

vars == <<history, client, repo, call, expected, shadow, lastFailed,
          parseIn, parseOp, parseOut, repoCall, houseRepo, inflight>>

(***************************************************************************)
(* Bounds of the model.                                                    *)
(***************************************************************************)
\* turns recorded in history before further turns are refused
MaxPairs == 2

(***************************************************************************)
(* Python str operations.                                                  *)
(***************************************************************************)
Whitespace == {" ", "\t", "\n"}

RECURSIVE LStrip(_)
LStrip(s) ==
    IF s # <<>> /\ Head(s) \in Whitespace THEN LStrip(Tail(s)) ELSE s

RECURSIVE RStrip(_)
RStrip(s) ==
    IF s # <<>> /\ s[Len(s)] \in Whitespace
    THEN RStrip(SubSeq(s, 1, Len(s) - 1))
    ELSE s

\* str.strip()
Strip(s) == RStrip(LStrip(s))

UpperLetters == <<"A", "B", "C", "D", "E", "F", "G", "H", "I", "J", "K", "L", "M",
                  "N", "O", "P", "Q", "R", "S", "T", "U", "V", "W", "X", "Y", "Z">>
LowerLetters == <<"a", "b", "c", "d", "e", "f", "g", "h", "i", "j", "k", "l", "m",
                  "n", "o", "p", "q", "r", "s", "t", "u", "v", "w", "x", "y", "z">>

LowerChar(c) ==
    IF \E i \in 1..Len(UpperLetters) : UpperLetters[i] = c
    THEN LowerLetters[CHOOSE i \in 1..Len(UpperLetters) : UpperLetters[i] = c]
    ELSE c

\* str.lower()
Lower(s) == [i \in 1..Len(s) |-> LowerChar(s[i])]

\* s.startswith(pat)
StartsWith(s, pat) == Len(s) >= Len(pat) /\ SubSeq(s, 1, Len(pat)) = pat

\* s.replace(pat, ""), pat non-empty: non-overlapping occurrences, left to right
RECURSIVE Remove(_, _)
Remove(s, pat) ==
    IF Len(s) < Len(pat) THEN s
    ELSE IF SubSeq(s, 1, Len(pat)) = pat
         THEN Remove(SubSeq(s, Len(pat) + 1, Len(s)), pat)
         ELSE <<Head(s)>> \o Remove(Tail(s), pat)

\* pat in s
Contains(s, pat) ==
    \E i \in 0..(Len(s) - Len(pat)) : SubSeq(s, i + 1, i + Len(pat)) = pat

Digits == <<"0", "1", "2", "3", "4", "5", "6", "7", "8", "9">>
IsDigit(c) == \E i \in 1..10 : Digits[i] = c
DigitVal(c) == (CHOOSE i \in 1..10 : Digits[i] = c) - 1

RECURSIVE DigitsVal(_)
DigitsVal(s) ==
    IF s = <<>> THEN 0
    ELSE DigitsVal(SubSeq(s, 1, Len(s) - 1)) * 10 + DigitVal(s[Len(s)])

RECURSIVE NatStr(_)
NatStr(n) ==
    IF n < 10 THEN <<Digits[n + 1]>>
    ELSE NatStr(n \div 10) \o <<Digits[(n % 10) + 1]>>

\* str(n) of an int
IntStr(n) == IF n < 0 THEN <<"-">> \o NatStr(-n) ELSE NatStr(n)

(***************************************************************************)
(* Values decoded by json.loads.  A float is held in tenths; the           *)
(* non-finite floats json.loads accepts (Infinity, NaN) have their own     *)
(* tags.  A nested list or dict is held by its length.                     *)
(***************************************************************************)
JNull      == [t |-> "null",  b |-> FALSE, n |-> 0, s |-> <<>>]
JBool(b)   == [t |-> "bool",  b |-> b,     n |-> 0, s |-> <<>>]
JInt(n)    == [t |-> "int",   b |-> FALSE, n |-> n, s |-> <<>>]
JFloat(n)  == [t |-> "float", b |-> FALSE, n |-> n, s |-> <<>>]
JInf       == [t |-> "inf",   b |-> FALSE, n |-> 1, s |-> <<>>]
JNaN       == [t |-> "nan",   b |-> FALSE, n |-> 0, s |-> <<>>]
JStr(s)    == [t |-> "str",   b |-> FALSE, n |-> 0, s |-> s]
JList(n)   == [t |-> "list",  b |-> FALSE, n |-> n, s |-> <<>>]
JDict(n)   == [t |-> "dict",  b |-> FALSE, n |-> n, s |-> <<>>]

\* the top-level value: a JSON object with its members, or any other value
Obj(members) == [isdict |-> TRUE,  d |-> members, v |-> JNull]
NonObj(v)    == [isdict |-> FALSE, d |-> <<>>,    v |-> v]

\* dict.get(key, default)
Get(d, key, default) == IF key \in DOMAIN d THEN d[key] ELSE default

\* bool(x)
PyBool(x) ==
    CASE x.t = "null"  -> FALSE
      [] x.t = "bool"  -> x.b
      [] x.t = "int"   -> x.n # 0
      [] x.t = "float" -> x.n # 0
      [] x.t = "inf"   -> TRUE
      [] x.t = "nan"   -> TRUE
      [] x.t = "str"   -> x.s # <<>>
      [] x.t = "list"  -> x.n # 0
      [] x.t = "dict"  -> x.n # 0

Ok(n)      == [exc |-> "", n |-> n]
Raised(e)  == [exc |-> e,  n |-> 0]

\* int(s) of a str: surrounding whitespace and one sign are accepted
IntOfStr(s) ==
    LET t      == Strip(s)
        signed == t # <<>> /\ Head(t) \in {"+", "-"}
        body   == IF signed THEN Tail(t) ELSE t
    IN  IF body # <<>> /\ \A i \in 1..Len(body) : IsDigit(body[i])
        THEN Ok(IF signed /\ Head(t) = "-" THEN -DigitsVal(body) ELSE DigitsVal(body))
        ELSE Raised("ValueError")

\* int(x): truncation toward zero for a float
PyInt(x) ==
    CASE x.t = "null"  -> Raised("TypeError")
      [] x.t = "bool"  -> Ok(IF x.b THEN 1 ELSE 0)
      [] x.t = "int"   -> Ok(x.n)
      [] x.t = "float" -> Ok(IF x.n < 0 THEN -((-x.n) \div 10) ELSE x.n \div 10)
      [] x.t = "inf"   -> Raised("OverflowError")
      [] x.t = "nan"   -> Raised("ValueError")
      [] x.t = "str"   -> IntOfStr(x.s)
      [] x.t = "list"  -> Raised("TypeError")
      [] x.t = "dict"  -> Raised("TypeError")

\* str(x)
PyStr(x) ==
    CASE x.t = "null"  -> <<"N", "o", "n", "e">>
      [] x.t = "bool"  -> IF x.b THEN <<"T", "r", "u", "e">>
                                 ELSE <<"F", "a", "l", "s", "e">>
      [] x.t = "int"   -> IntStr(x.n)
      [] x.t = "float" -> (IF x.n < 0 THEN <<"-">> ELSE <<>>)
                          \o NatStr((IF x.n < 0 THEN -x.n ELSE x.n) \div 10)
                          \o <<".">>
                          \o NatStr((IF x.n < 0 THEN -x.n ELSE x.n) % 10)
      [] x.t = "inf"   -> <<"i", "n", "f">>
      [] x.t = "nan"   -> <<"n", "a", "n">>
      [] x.t = "str"   -> x.s
      [] x.t = "list"  -> <<"[">> \o [i \in 1..x.n |-> "_"] \o <<"]">>
      [] x.t = "dict"  -> <<"{">> \o [i \in 1..x.n |-> "_"] \o <<"}">>

(***************************************************************************)
(* HouseSearchQuery (search_schema.py).                                    *)
(***************************************************************************)
HouseSearchQuery(search_intent, area, max_price) ==
    [search_intent |-> search_intent, area |-> area, max_price |-> max_price]

\* HouseSearchQuery(): the dataclass defaults
DefaultQuery == HouseSearchQuery(FALSE, JNull, JNull)

Returns(q) == [exc |-> "", q |-> q]
Raises(e)  == [exc |-> e,  q |-> DefaultQuery]

\* the falsy-test variant of the empty check of max_price
from_dict_falsy(data) ==
    IF ~data.isdict THEN Returns(DefaultQuery)
    ELSE
      LET search_intent == PyBool(Get(data.d, "search_intent", JBool(FALSE)))
          area          == Get(data.d, "area", JNull)
          raw_max_price == Get(data.d, "max_price", JNull)
          conv          == PyInt(raw_max_price)
      IN  IF ~PyBool(raw_max_price)
          THEN Returns(HouseSearchQuery(search_intent, area, JNull))
          ELSE IF conv.exc = ""
          THEN Returns(HouseSearchQuery(search_intent, area, JInt(conv.n)))
          ELSE IF conv.exc \in {"TypeError", "ValueError"}
          THEN Returns(HouseSearchQuery(search_intent, area, JNull))
          ELSE Raises(conv.exc)

\* HouseSearchQuery.from_dict
from_dict(data) ==
    IF ~data.isdict THEN Returns(DefaultQuery)
    ELSE
      LET search_intent == PyBool(Get(data.d, "search_intent", JBool(FALSE)))
          area          == Get(data.d, "area", JNull)
          raw_max_price == Get(data.d, "max_price", JNull)
          conv          == PyInt(raw_max_price)
      IN  IF raw_max_price.t = "null" \/ raw_max_price = JStr(<<>>)
          THEN Returns(HouseSearchQuery(search_intent, area, JNull))
          ELSE IF conv.exc = ""
          THEN Returns(HouseSearchQuery(search_intent, area, JInt(conv.n)))
          ELSE IF conv.exc \in {"TypeError", "ValueError"}
          THEN Returns(HouseSearchQuery(search_intent, area, JNull))
          ELSE Raises(conv.exc)

(***************************************************************************)
(* The field cleaning of ChatService._extract_query_params, lines 83-103,  *)
(* on the value json.loads returned.                                       *)
(***************************************************************************)
\* x.strip() or None
StripOrNone(s) == IF Strip(s) = <<>> THEN JNull ELSE JStr(Strip(s))

extract_fields(result) ==
    IF ~result.isdict THEN Raises("AttributeError")
    ELSE
      LET search_intent == Get(result.d, "search_intent", JBool(FALSE))
          area0         == Get(result.d, "area", JNull)
          area          == IF area0.t = "null" THEN JNull
                           ELSE IF area0.t # "str" THEN StripOrNone(PyStr(area0))
                           ELSE StripOrNone(area0.s)
          max_price0    == Get(result.d, "max_price", JNull)
          conv          == PyInt(max_price0)
      IN  IF max_price0.t = "null"
          THEN Returns(HouseSearchQuery(PyBool(search_intent), area, JNull))
          ELSE IF conv.exc = ""
          THEN Returns(HouseSearchQuery(PyBool(search_intent), area, JInt(conv.n)))
          ELSE IF conv.exc \in {"TypeError", "ValueError"}
          THEN Returns(HouseSearchQuery(PyBool(search_intent), area, JNull))
          ELSE Raises(conv.exc)

(***************************************************************************)
(* The generation gateway.  A backend outcome is what the remote API does  *)
(* on one call: it fails with an error text, answers without choices,      *)
(* answers with a null content, or answers with a content text.            *)
(***************************************************************************)
BackendException(e) == [kind |-> "exception",    text |-> e]
BackendNoChoices    == [kind |-> "no_choices",   text |-> <<>>]
BackendNullContent  == [kind |-> "content_none", text |-> <<>>]
BackendContent(c)   == [kind |-> "content",      text |-> c]

GwReturn(text) == [raised |-> FALSE, text |-> text]
GwRaise(e)     == [raised |-> TRUE,  text |-> e]

\* the fixed texts of openai_client.py
PLACEHOLDER_REPLY == <<"[no-api-key-placeholder]">>
NO_CHOICES_REPLY  == <<"[api-returned-no-content]">>
EMPTY_REPLY       == <<"[api-returned-empty-content]">>
CallFailedReply(e) == <<"[api-call-failed:]">> \o e

\* OpenAIClient.generate_reply; configured is self._client is not None
OpenAIClient_generate_reply(configured, o) ==
    IF ~configured THEN GwReturn(PLACEHOLDER_REPLY)
    ELSE CASE o.kind = "exception"    -> GwReturn(CallFailedReply(o.text))
           [] o.kind = "no_choices"   -> GwReturn(NO_CHOICES_REPLY)
           [] o.kind = "content_none" -> GwReturn(EMPTY_REPLY)
           [] o.kind = "content"      ->
                IF o.text = <<>> THEN GwReturn(EMPTY_REPLY)
                ELSE GwReturn(Strip(o.text))

\* the clients a ChatService can be constructed with
Clients == {"OpenAIClient", "OpenAIClient_no_key", "BaseLLMClient"}

\* self._client.generate_reply(messages): another implementation of
\* BaseLLMClient returns the text as it is, or raises
generate_reply(cl, o) ==
    CASE cl = "OpenAIClient"        -> OpenAIClient_generate_reply(TRUE, o)
      [] cl = "OpenAIClient_no_key" -> OpenAIClient_generate_reply(FALSE, o)
      [] cl = "BaseLLMClient"       ->
           IF o.kind = "exception" THEN GwRaise(o.text) ELSE GwReturn(o.text)

(***************************************************************************)
(* json.loads on the sample documents.  A document is one atom holding     *)
(* its JSON text; any other text is not valid JSON.                        *)
(***************************************************************************)
NanShan == <<"U+5357", "U+5C71">>
FuTian  == <<"U+798F", "U+7530">>

DOC_NO_INTENT == "{\"search_intent\": false, \"area\": null, \"max_price\": null}"
DOC_NANSHAN   == "{\"search_intent\": true, \"area\": \"U+5357U+5C71\", \"max_price\": 4000}"
DOC_ANYWHERE  == "{\"search_intent\": true, \"area\": null, \"max_price\": null}"
DOC_LIST      == "[1, 2]"
DOC_FUTIAN    == "{\"search_intent\": true, \"area\": \"U+798FU+7530\", \"max_price\": null}"
DOC_BUDGET    == "{\"search_intent\": true, \"area\": null, \"max_price\": 5000}"
DOC_FUTIAN_BUDGET == "{\"search_intent\": true, \"area\": \"U+798FU+7530\", \"max_price\": 5000}"
DOC_FUTIAN_CHEAP  == "{\"search_intent\": true, \"area\": \"U+798FU+7530\", \"max_price\": 2000}"

JsonDocs ==
    (DOC_NO_INTENT :> Obj([search_intent |-> JBool(FALSE), area |-> JNull,
                           max_price |-> JNull]))
    @@ (DOC_NANSHAN :> Obj([search_intent |-> JBool(TRUE), area |-> JStr(NanShan),
                            max_price |-> JInt(4000)]))
    @@ (DOC_ANYWHERE :> Obj([search_intent |-> JBool(TRUE), area |-> JNull,
                             max_price |-> JNull]))
    @@ (DOC_LIST :> NonObj(JList(2)))
    @@ (DOC_FUTIAN :> Obj([search_intent |-> JBool(TRUE), area |-> JStr(FuTian),
                           max_price |-> JNull]))
    @@ (DOC_BUDGET :> Obj([search_intent |-> JBool(TRUE), area |-> JNull,
                           max_price |-> JInt(5000)]))
    @@ (DOC_FUTIAN_BUDGET :> Obj([search_intent |-> JBool(TRUE), area |-> JStr(FuTian),
                                  max_price |-> JInt(5000)]))
    @@ (DOC_FUTIAN_CHEAP :> Obj([search_intent |-> JBool(TRUE), area |-> JStr(FuTian),
                                 max_price |-> JInt(2000)]))

Decoded(data)  == [exc |-> "", data |-> data]
DecodeError    == [exc |-> "JSONDecodeError", data |-> NonObj(JNull)]

\* json.loads(text)
json_loads(text) ==
    IF Len(text) = 1 /\ text[1] \in DOMAIN JsonDocs
    THEN Decoded(JsonDocs[text[1]])
    ELSE DecodeError

\* three backquotes, one atom
FENCE      == <<"[backquotes]">>
FENCE_JSON == FENCE \o <<"j", "s", "o", "n">>

\* .replace(FENCE_JSON, "").replace(FENCE, "").strip()
StripFences(s) == Strip(Remove(Remove(s, FENCE_JSON), FENCE))

(***************************************************************************)
(* ChatService._extract_query_params                                       *)
(***************************************************************************)
\* history[-n:]
LastN(h, n) == IF Len(h) <= n THEN h ELSE SubSeq(h, Len(h) - n + 1, Len(h))

\* "\n".join(f"{msg['role']}: {msg['content']}" for msg in msgs)
RECURSIVE HistoryText(_)
HistoryText(msgs) ==
    IF msgs = <<>> THEN <<>>
    ELSE LET line == <<msgs[1].role, ":", " ">> \o msgs[1].content
         IN  IF Len(msgs) = 1 THEN line
             ELSE line \o <<"\n">> \o HistoryText(Tail(msgs))

\* history messages rendered into the extraction prompt
NluWindow == 6

\* the prompt without the conversation so far
ExtractionPrompt_without_history(h, user_message) ==
    <<"[nlu-instructions]">>
    \o <<"[latest-reply:]">> \o user_message \o <<"[nlu-schema-and-examples]">>

\* the prompt of _extract_query_params, lines 48-69
ExtractionPrompt(h, user_message) ==
    <<"[nlu-instructions]">> \o HistoryText(LastN(h, NluWindow))
    \o <<"[latest-reply:]">> \o user_message \o <<"[nlu-schema-and-examples]">>

\* catching json.JSONDecodeError alone instead of Exception
extract_query_params_narrow_except(cl, o) ==
    LET g       == generate_reply(cl, o)
        decoded == json_loads(StripFences(g.text))
        fields  == extract_fields(decoded.data)
    IN  IF g.raised THEN Raises("RuntimeError")
        ELSE IF decoded.exc # "" THEN Returns(DefaultQuery)
        ELSE fields

\* lines 83-106 on the decoded result: an exception of the field cleaning is
\* caught by except Exception: return default
extract_decoded(result) ==
    IF extract_fields(result).exc # "" THEN Returns(DefaultQuery)
    ELSE extract_fields(result)

\* lines 71-106: the gateway call, the decoding and the field cleaning, all
\* inside try ... except Exception: return default
extract_query_params(cl, o) ==
    LET g       == generate_reply(cl, o)
        decoded == json_loads(StripFences(g.text))
    IN  IF g.raised THEN Returns(DefaultQuery)
        ELSE IF decoded.exc # "" THEN Returns(DefaultQuery)
        ELSE extract_decoded(decoded.data)

(***************************************************************************)
(* QueryParser.parse                                                       *)
(***************************************************************************)
\* (x or "").strip() of an optional str
Trimmed(user_message) ==
    IF user_message.isNone THEN <<>> ELSE Strip(user_message.s)

\* lines 115-117 on the decoded data, outside the try block
parse_decoded(data) == from_dict(data)

\* history messages rendered into the prompt of QueryParser.parse
ParserWindow == 6

\* the prompt of QueryParser.parse, lines 36-71
ParserPrompt(h, text) ==
    <<"[tracker-rules]", "[schema]", "[history-header]">>
    \o HistoryText(LastN(h, ParserWindow))
    \o <<"[latest-input:]">> \o text \o <<"[output-json-only]">>

\* the emptiness test on the input as given, not trimmed
QueryParser_parse_unstripped(cl, h, current_input, o) ==
    LET text    == IF current_input.isNone THEN <<>> ELSE current_input.s
        g       == generate_reply(cl, o)
        cleaned == IF StartsWith(Strip(g.text), FENCE)
                   THEN StripFences(Strip(g.text))
                   ELSE Strip(g.text)
        decoded == json_loads(cleaned)
        query   == parse_decoded(decoded.data)
    IN  IF text = <<>>
        THEN [exc |-> "", q |-> DefaultQuery, gateway_calls |-> 0]
        ELSE IF g.raised \/ decoded.exc # ""
        THEN [exc |-> "", q |-> DefaultQuery, gateway_calls |-> 1]
        ELSE [exc |-> query.exc, q |-> query.q, gateway_calls |-> 1]

\* returns [exc, q, gateway_calls]
QueryParser_parse(cl, h, current_input, o) ==
    LET text    == Trimmed(current_input)
        g       == generate_reply(cl, o)
        cleaned == IF StartsWith(Strip(g.text), FENCE)
                   THEN StripFences(Strip(g.text))
                   ELSE Strip(g.text)
        decoded == json_loads(cleaned)
        query   == parse_decoded(decoded.data)
    IN  IF text = <<>>
        THEN [exc |-> "", q |-> DefaultQuery, gateway_calls |-> 0]
        ELSE IF g.raised \/ decoded.exc # ""
        THEN [exc |-> "", q |-> DefaultQuery, gateway_calls |-> 1]
        ELSE [exc |-> query.exc, q |-> query.q, gateway_calls |-> 1]

(***************************************************************************)
(* HouseRepository (house_repository.py).  Its catalog, data.house_data,   *)
(* is a list of dicts with the keys id, area, location, type, price, desc. *)
(***************************************************************************)
House(id, area, location, type, price, desc) ==
    [id |-> id, area |-> area, location |-> location, type |-> type,
     price |-> price, desc |-> desc]

MOCK_HOUSES ==
    << House(1, NanShan, <<"k", "j", "y">>, <<"1b">>, JInt(4500), <<"metro">>),
       House(2, NanShan, <<"h", "h">>,      <<"2b">>, JInt(3000), <<"quiet">>),
       House(3, FuTian,  <<"c", "g", "m">>, <<"1b">>, JInt(3000), <<"new">>),
       House(4, NanShan, <<"s", "k">>,      <<"3b">>, JInt(6000), <<"sea">>),
       House(5, FuTian,  <<"g", "x">>,      <<"1b">>, JInt(5000), <<"mall">>) >>

\* listings returned by one query
TopK == 3

\* the keyword and the fields compared in lower case
AreaMatches_ignoring_case(house, area) ==
    IF area.t = "str" /\ area.s # <<>> /\ Strip(area.s) # <<>>
    THEN \/ Contains(Lower(Strip(house.area)), Lower(Strip(area.s)))
         \/ Contains(Lower(Strip(house.location)), Lower(Strip(area.s)))
    ELSE TRUE

\* the region test of lines 68-73
AreaMatches(house, area) ==
    IF area.t = "str" /\ area.s # <<>> /\ Strip(area.s) # <<>>
    THEN \/ Contains(Strip(house.area), Strip(area.s))
         \/ Contains(Strip(house.location), Strip(area.s))
    ELSE TRUE

\* the price test of lines 76-82: "keep", "skip", or the exception that escapes
PriceVerdict(house, max_price) ==
    IF max_price.t = "null" THEN "keep"
    ELSE LET conv == PyInt(house.price)
         IN  IF conv.exc \in {"TypeError", "ValueError"} THEN "skip"
             ELSE IF conv.exc # "" THEN conv.exc
             ELSE IF conv.n > max_price.n THEN "skip" ELSE "keep"

\* x placed before the elements of the sorted list with an equal key
InsertByPrice_before_equal(x, sorted, key) ==
    LET k == Cardinality({i \in 1..Len(sorted) : PyInt(sorted[i].price).n < key})
    IN  SubSeq(sorted, 1, k) \o <<x>> \o SubSeq(sorted, k + 1, Len(sorted))

\* x placed after the elements of the sorted list whose key is not greater
InsertByPrice(x, sorted, key) ==
    LET k == Cardinality({i \in 1..Len(sorted) : PyInt(sorted[i].price).n <= key})
    IN  SubSeq(sorted, 1, k) \o <<x>> \o SubSeq(sorted, k + 1, Len(sorted))

\* list.sort(key=lambda x: int(x.get("price", 0))): stable, ascending
RECURSIVE SortByPrice(_)
SortByPrice(hs) ==
    IF hs = <<>> THEN <<>>
    ELSE InsertByPrice(hs[Len(hs)], SortByPrice(SubSeq(hs, 1, Len(hs) - 1)),
                       PyInt(hs[Len(hs)].price).n)

\* the first TopK elements
Top(sorted) == SubSeq(sorted, 1, IF Len(sorted) < TopK THEN Len(sorted) ELSE TopK)

\* the loop of lines 66-84 over the listings the region test lets through
FilterByPrice(seen, max_price) ==
    LET escapes == {i \in 1..Len(seen) :
                      PriceVerdict(seen[i], max_price) \notin {"keep", "skip"}}
    IN  IF escapes # {}
        THEN [exc |-> PriceVerdict(seen[CHOOSE i \in escapes : \A j \in escapes : i <= j],
                                   max_price),
              houses |-> <<>>]
        ELSE [exc |-> "",
              houses |-> SelectSeq(seen, LAMBDA h : PriceVerdict(h, max_price) = "keep")]

\* lines 86-87 on the filtered listings
SortedTop(filtered) ==
    IF filtered.exc # "" THEN filtered
    ELSE IF \E i \in 1..Len(filtered.houses) : PyInt(filtered.houses[i].price).exc # ""
    THEN [exc |-> PyInt(filtered.houses[
                      CHOOSE i \in 1..Len(filtered.houses) :
                        /\ PyInt(filtered.houses[i].price).exc # ""
                        /\ \A j \in 1..(i - 1) : PyInt(filtered.houses[j].price).exc = ""
                    ].price).exc,
          houses |-> <<>>]
    ELSE [exc |-> "", houses |-> Top(SortByPrice(filtered.houses))]

\* HouseRepository.query_houses(area=..., max_price=...): [exc, houses]
query_houses(data, area, max_price) ==
    SortedTop(FilterByPrice(SelectSeq(data, LAMBDA h : AreaMatches(h, area)), max_price))

\* the query argument: None, or an object with the fields of HouseSearchQuery
NoQuery        == [present |-> FALSE, q |-> DefaultQuery]
QueryObject(q) == [present |-> TRUE,  q |-> q]

\* the fields of the query object replacing the explicit arguments
resolve_filters_query_first(query, area, max_price) ==
    [area      |-> IF query.present THEN query.q.area ELSE area,
     max_price |-> IF query.present THEN query.q.max_price ELSE max_price]

\* lines 50-55: a field of the query object is taken where the argument is None
resolve_filters(query, area, max_price) ==
    [area      |-> IF query.present /\ area.t = "null" THEN query.q.area ELSE area,
     max_price |-> IF query.present /\ max_price.t = "null"
                   THEN query.q.max_price ELSE max_price]

\* query_houses on the resolved filters
query_resolved(data, filters) == query_houses(data, filters.area, filters.max_price)

\* HouseRepository.query_houses(query, area=..., max_price=...): [exc, houses]
HouseRepository_query_houses(data, query, area, max_price) ==
    query_resolved(data, resolve_filters(query, area, max_price))

\* no call made on the repository of the store specification
NoStoreCall ==
    [catalog |-> <<>>, query |-> NoQuery, area |-> JNull, max_price |-> JNull,
     op |-> "none", out |-> [exc |-> "", houses |-> <<>>]]

\* no repository in use by a caller
NoInstance ==
    [data |-> <<>>, constructed |-> <<>>, held |-> <<>>, log |-> {},
     queries |-> 0, edited |-> FALSE, op |-> "none",
     area |-> JNull, max_price |-> JNull,
     out |-> [exc |-> "", houses |-> <<>>],
     repeated |-> FALSE, edited_before |-> FALSE]

(***************************************************************************)
(* render_prompt (prompt_manager.py).  The text of system_chat.j2 is not   *)
(* part of the pipeline; the rendered prompt is held as the template name  *)
(* with the two parameters it was rendered with.                           *)
(***************************************************************************)
NoContext     == [present |-> FALSE, text |-> <<>>]
Context(text) == [present |-> TRUE,  text |-> text]

render_prompt(template_exists, context, searched) ==
    IF ~template_exists THEN [exc |-> "TemplateNotFound", text |-> <<>>]
    ELSE [exc |-> "",
          text |-> Strip(<<"[system_chat.j2]">>
                         \o (IF searched THEN <<"[searched]">> ELSE <<"[not-searched]">>)
                         \o context.text)]

(***************************************************************************)
(* ChatService (chat_service.py)                                           *)
(***************************************************************************)
Msg(role, content) == [role |-> role, content |-> content]

GREETING      == <<"[greeting]">>
EMPTY_PROMPT  == <<"[did-not-catch-that]">>
RESET_DONE    == <<"[conversation-reset]">>
\* f"...(error: {e})"
BusyMessage(e) == <<"[system-busy-try-later:]">> \o e \o <<"[end]">>

\* the history of __init__ and of a reset
InitialHistory == <<Msg("assistant", GREETING)>>

\* the texts the reset test compares with
ResetKeywords == {<<"U+6E05", "U+7A7A">>, <<"r", "e", "s", "e", "t">>,
                  <<"U+91CD", "U+7F6E">>}

\* history messages sent with the final reply request
ChatWindow == 10

\* one line of the listing context, line 166
HouseLine(h) ==
    <<"-", " ", "[">> \o h.area \o <<"-">> \o h.location \o <<"]", " ">>
    \o h.type \o <<" ">> \o PyStr(h.price) \o <<"[yuan-per-month-highlight:]">> \o h.desc

RECURSIVE JoinLines(_)
JoinLines(lines) ==
    IF lines = <<>> THEN <<>>
    ELSE IF Len(lines) = 1 THEN lines[1]
    ELSE lines[1] \o <<"\n">> \o JoinLines(Tail(lines))

\* lines 165-168
HouseContext(houses) ==
    Context(<<"[found-these-listings:]", "\n">>
            \o JoinLines([i \in 1..Len(houses) |-> HouseLine(houses[i])]))

\* the whole history instead of its last ChatWindow messages
build_chat_messages_whole_history(h, user_message, house_context, searched, template_exists) ==
    LET system_prompt == render_prompt(template_exists, house_context, searched)
    IN  IF system_prompt.exc # ""
        THEN [exc |-> system_prompt.exc, messages |-> <<>>]
        ELSE [exc |-> "",
              messages |-> <<Msg("system", system_prompt.text)>>
                           \o h
                           \o <<Msg("user", user_message)>>]

\* a window one message shorter
build_chat_messages_window_nine(h, user_message, house_context, searched, template_exists) ==
    LET system_prompt == render_prompt(template_exists, house_context, searched)
    IN  IF system_prompt.exc # ""
        THEN [exc |-> system_prompt.exc, messages |-> <<>>]
        ELSE [exc |-> "",
              messages |-> <<Msg("system", system_prompt.text)>>
                           \o LastN(h, ChatWindow - 1)
                           \o <<Msg("user", user_message)>>]

\* ChatService._build_chat_messages: [exc, messages]
build_chat_messages(h, user_message, house_context, searched, template_exists) ==
    LET system_prompt == render_prompt(template_exists, house_context, searched)
    IN  IF system_prompt.exc # ""
        THEN [exc |-> system_prompt.exc, messages |-> <<>>]
        ELSE [exc |-> "",
              messages |-> <<Msg("system", system_prompt.text)>>
                           \o LastN(h, ChatWindow)
                           \o <<Msg("user", user_message)>>]

Return(text)  == [kind |-> "return", text |-> text]
Raise(e)      == [kind |-> "raise",  text |-> <<e>>]

\* without .strip()
chat_text_unstripped(user_message) ==
    IF user_message.isNone THEN <<>> ELSE user_message.s

\* line 126
chat_text(user_message) == Trimmed(user_message)

\* without .lower()
IsResetKeyword_case_sensitive(text) == text \in ResetKeywords

\* line 130
IsResetKeyword(text) == Lower(text) \in ResetKeywords

\* appending the user turn before the gateway answers
after_reply_partial(h, text, g) ==
    IF ~g.raised
    THEN [history |-> h \o <<Msg("user", text), Msg("assistant", g.text)>>,
          ret     |-> Return(g.text)]
    ELSE [history |-> h \o <<Msg("user", text)>>,
          ret     |-> Return(BusyMessage(g.text))]

\* recording the failed turn with the busy message as its reply
after_reply_recording_failure(h, text, g) ==
    IF ~g.raised
    THEN [history |-> h \o <<Msg("user", text), Msg("assistant", g.text)>>,
          ret     |-> Return(g.text)]
    ELSE [history |-> h \o <<Msg("user", text), Msg("assistant", BusyMessage(g.text))>>,
          ret     |-> Return(BusyMessage(g.text))]

\* appending the assistant turn first
after_reply_swapped(h, text, g) ==
    IF ~g.raised
    THEN [history |-> h \o <<Msg("assistant", g.text), Msg("user", text)>>,
          ret     |-> Return(g.text)]
    ELSE [history |-> h, ret |-> Return(BusyMessage(g.text))]

\* lines 181-191: g is what self._client.generate_reply(messages) did
after_reply(h, text, g) ==
    IF ~g.raised
    THEN [history |-> h \o <<Msg("user", text), Msg("assistant", g.text)>>,
          ret     |-> Return(g.text)]
    ELSE [history |-> h, ret |-> Return(BusyMessage(g.text))]

\* what one handle_chat call did
Outcome(h, ret, params, searched, ctx, messages, gateway, store, render, calls) ==
    [history |-> h, ret |-> ret, params |-> params, searched |-> searched,
     house_context |-> ctx, messages |-> messages,
     gateway_calls |-> gateway, store_calls |-> store, render_calls |-> render,
     calls |-> calls]

\* the collaborators called, in order, when step 3 begins: the extraction call
\* of line 140 and, if made, the store call of line 155
CallsBeforeReply(store) ==
    IF store = 1 THEN <<"generate_reply", "query_houses">> ELSE <<"generate_reply">>

\* the reply call made again when it raised
reply_stage_retry_once(h, cl, text, params, searched, ctx, store, ro, template_exists, built) ==
    IF built.exc # ""
    THEN Outcome(h, Raise(built.exc), params, searched, ctx, <<>>, 1, store, 1,
                 CallsBeforeReply(store) \o <<"render_prompt">>)
    ELSE Outcome(after_reply(h, text, generate_reply(cl, ro)).history,
                 after_reply(h, text, generate_reply(cl, ro)).ret,
                 params, searched, ctx, built.messages,
                 IF generate_reply(cl, ro).raised THEN 3 ELSE 2, store, 1,
                 CallsBeforeReply(store) \o <<"render_prompt", "generate_reply">>
                 \o (IF generate_reply(cl, ro).raised THEN <<"generate_reply">> ELSE <<>>))

\* the prompt built inside the try block of the reply call
reply_stage_build_in_try(h, cl, text, params, searched, ctx, store, ro, template_exists, built) ==
    IF built.exc # ""
    THEN Outcome(h, Return(BusyMessage(<<built.exc>>)), params, searched, ctx, <<>>,
                 1, store, 1, CallsBeforeReply(store) \o <<"render_prompt">>)
    ELSE Outcome(after_reply(h, text, generate_reply(cl, ro)).history,
                 after_reply(h, text, generate_reply(cl, ro)).ret,
                 params, searched, ctx, built.messages, 2, store, 1,
                 CallsBeforeReply(store) \o <<"render_prompt", "generate_reply">>)

\* step 3 (NLG), lines 173-191, once the listings are known
reply_stage(h, cl, text, params, searched, ctx, store, ro, template_exists, built) ==
    IF built.exc # ""
    THEN Outcome(h, Raise(built.exc), params, searched, ctx, <<>>, 1, store, 1,
                 CallsBeforeReply(store) \o <<"render_prompt">>)
    ELSE Outcome(after_reply(h, text, generate_reply(cl, ro)).history,
                 after_reply(h, text, generate_reply(cl, ro)).ret,
                 params, searched, ctx, built.messages, 2, store, 1,
                 CallsBeforeReply(store) \o <<"render_prompt", "generate_reply">>)

\* searched set only when listings were found
query_stage_searched_if_found(h, cl, text, params, found, ro, template_exists) ==
    IF found.exc # ""
    THEN Outcome(h, Raise(found.exc), params, FALSE, NoContext, <<>>, 1, 1, 0,
                 <<"generate_reply", "query_houses">>)
    ELSE reply_stage(h, cl, text, params, found.houses # <<>>,
                     IF found.houses # <<>> THEN HouseContext(found.houses) ELSE NoContext,
                     1, ro, template_exists,
                     build_chat_messages(h, text,
                         IF found.houses # <<>> THEN HouseContext(found.houses)
                         ELSE NoContext,
                         found.houses # <<>>, template_exists))

\* step 2 (Query), lines 143-171, on what query_houses did
query_stage(h, cl, text, params, found, ro, template_exists) ==
    IF found.exc # ""
    THEN Outcome(h, Raise(found.exc), params, FALSE, NoContext, <<>>, 1, 1, 0,
                 <<"generate_reply", "query_houses">>)
    ELSE reply_stage(h, cl, text, params, TRUE,
                     IF found.houses # <<>> THEN HouseContext(found.houses) ELSE NoContext,
                     1, ro, template_exists,
                     build_chat_messages(h, text,
                         IF found.houses # <<>> THEN HouseContext(found.houses)
                         ELSE NoContext,
                         TRUE, template_exists))

\* a missing repository counted as a search that found nothing
turn_stage_searched_without_repo(h, cl, rp, text, ex, ro, template_exists) ==
    IF ex.exc # ""
    THEN Outcome(h, Raise(ex.exc), DefaultQuery, FALSE, NoContext, <<>>, 1, 0, 0,
                 <<"generate_reply">>)
    ELSE IF ~ex.q.search_intent
    THEN reply_stage(h, cl, text, ex.q, FALSE, NoContext, 0, ro, template_exists,
                     build_chat_messages(h, text, NoContext, FALSE, template_exists))
    ELSE IF ~rp.configured
    THEN reply_stage(h, cl, text, ex.q, TRUE, NoContext, 0, ro, template_exists,
                     build_chat_messages(h, text, NoContext, TRUE, template_exists))
    ELSE query_stage(h, cl, text, ex.q,
                     query_houses(rp.data, ex.q.area, ex.q.max_price),
                     ro, template_exists)

\* lines 139-176 on what _extract_query_params did
turn_stage(h, cl, rp, text, ex, ro, template_exists) ==
    IF ex.exc # ""
    THEN Outcome(h, Raise(ex.exc), DefaultQuery, FALSE, NoContext, <<>>, 1, 0, 0,
                 <<"generate_reply">>)
    ELSE IF ~ex.q.search_intent \/ ~rp.configured
    THEN reply_stage(h, cl, text, ex.q, FALSE, NoContext, 0, ro, template_exists,
                     build_chat_messages(h, text, NoContext, FALSE, template_exists))
    ELSE query_stage(h, cl, text, ex.q,
                     query_houses(rp.data, ex.q.area, ex.q.max_price),
                     ro, template_exists)

\* lines 127-140 on the trimmed text
text_stage(h, cl, rp, text, eo, ro, template_exists) ==
    IF text = <<>>
    THEN Outcome(h, Return(EMPTY_PROMPT), DefaultQuery, FALSE, NoContext, <<>>, 0, 0, 0,
                 <<>>)
    ELSE IF IsResetKeyword(text)
    THEN Outcome(InitialHistory, Return(RESET_DONE), DefaultQuery, FALSE, NoContext,
                 <<>>, 0, 0, 0, <<>>)
    ELSE turn_stage(h, cl, rp, text, extract_query_params(cl, eo), ro, template_exists)

\* ChatService.handle_chat, on history h with client cl and repository rp;
\* eo and ro are the backend outcomes of the extraction and of the reply call
handle_chat(h, cl, rp, user_message, eo, ro, template_exists) ==
    text_stage(h, cl, rp, chat_text(user_message), eo, ro, template_exists)

(***************************************************************************)
(* The inputs of the model.                                                *)
(***************************************************************************)
NoneMsg    == [isNone |-> TRUE,  s |-> <<>>]
UserMsg(s) == [isNone |-> FALSE, s |-> s]

UserInputs ==
    { NoneMsg,
      UserMsg(<<>>),
      UserMsg(<<" ", "\t", "\n">>),
      UserMsg(<<"r", "e", "s", "e", "t">>),
      UserMsg(<<" ", "R", "e", "S", "E", "T", "\n">>),
      UserMsg(<<"U+6E05", "U+7A7A">>),
      UserMsg(<<"U+91CD", "U+7F6E", " ">>),
      UserMsg(<<" ", "H", "i", "\n">>),
      UserMsg(<<"r", "e", "s", "e", "t", "s">>) }

TIMEOUT == <<"t", "i", "m", "e", "o", "u", "t">>

\* the backend of a client without key is never contacted
NotContacted == [kind |-> "not_contacted", text |-> <<>>]

ExtractionOutcomes(cl) ==
    IF cl = "OpenAIClient_no_key" THEN {NotContacted}
    ELSE { BackendException(TIMEOUT),
           BackendContent(<<DOC_NO_INTENT>>),
           BackendContent(FENCE_JSON \o <<"\n", DOC_NANSHAN, "\n">> \o FENCE),
           BackendContent(<<" ", DOC_ANYWHERE>>),
           BackendContent(<<DOC_LIST>>),
           BackendContent(<<"s", "o", "r", "r", "y">>) }

ReplyOutcomes(cl) ==
    CASE cl = "OpenAIClient_no_key" -> {NotContacted}
      [] cl = "OpenAIClient" ->
           { BackendException(TIMEOUT), BackendNoChoices, BackendNullContent,
             BackendContent(<<" ", "o", "k", "\n">>) }
      [] cl = "BaseLLMClient" ->
           { BackendException(TIMEOUT), BackendContent(<<" ", "o", "k", "\n">>) }

NoRepo       == [configured |-> FALSE, data |-> <<>>]
Repo(data)   == [configured |-> TRUE,  data |-> data]

\* the threads of the development server that serve POST /chat
Threads == {1, 2}

\* a thread outside handle_chat
IdleThread ==
    [pc |-> "idle", text |-> <<>>, messages |-> <<>>, reply |-> <<>>, req |-> 0]

\* no request being served; owners[i] is the request that appended
\* history[i], 0 for the greeting
NoRequests ==
    [threads |-> [t \in Threads |-> IdleThread], owners |-> <<0>>, requests |-> 0,
     resets |-> 0]

(***************************************************************************)
(* routes.chat serves one request at a time from the one ChatService.      *)
(***************************************************************************)
Idle ==
    [op |-> "idle", input |-> NoneMsg, eo |-> NotContacted, ro |-> NotContacted,
     template_exists |-> TRUE, before |-> <<>>, ret |-> Return(<<>>),
     params |-> DefaultQuery, searched |-> FALSE, house_context |-> NoContext,
     messages |-> <<>>, gateway_calls |-> 0, store_calls |-> 0, render_calls |-> 0,
     shadow_messages |-> <<>>, retry |-> FALSE, nlu_prompt |-> <<>>, calls |-> <<>>]

NoFailure       == [pending |-> FALSE, text |-> <<>>]
FailureOf(text) == [pending |-> TRUE,  text |-> text]

Init ==
    /\ history = InitialHistory
    /\ client \in Clients
    /\ repo \in {NoRepo, Repo(MOCK_HOUSES)}
    /\ call = Idle
    /\ expected = <<>>
    /\ shadow = InitialHistory
    /\ lastFailed = NoFailure
    /\ parseIn = NonObj(JNull)
    /\ parseOp = "none"
    /\ parseOut = Returns(DefaultQuery)
    /\ repoCall = NoStoreCall
    /\ houseRepo = NoInstance
    /\ inflight = NoRequests

\* the bookkeeping of one served request: r is what handle_chat did on history,
\* rs what it does on shadow, g what the gateway does on the reply call
Served(m, eo, ro, template_exists, text, isReset, r, rs, g) ==
    /\ history' = r.history
    /\ call' = [op |-> "chat", input |-> m,
                eo |-> IF r.gateway_calls >= 1 THEN eo ELSE NotContacted,
                ro |-> IF r.gateway_calls = 2 THEN ro ELSE NotContacted,
                template_exists |-> (r.render_calls = 1 => template_exists),
                before |-> history, ret |-> r.ret, params |-> r.params,
                searched |-> r.searched, house_context |-> r.house_context,
                messages |-> r.messages, gateway_calls |-> r.gateway_calls,
                store_calls |-> r.store_calls, render_calls |-> r.render_calls,
                shadow_messages |-> rs.messages,
                retry |-> /\ r.gateway_calls = 2
                          /\ ~g.raised
                          /\ lastFailed = FailureOf(text),
                nlu_prompt |-> IF r.gateway_calls >= 1
                               THEN ExtractionPrompt(history, text) ELSE <<>>,
                calls |-> r.calls]
    /\ expected' = IF text = <<>> THEN expected
                   ELSE IF isReset THEN <<>>
                   ELSE IF r.gateway_calls = 2 /\ ~g.raised
                   THEN Append(expected, [user |-> text, reply |-> g.text])
                   ELSE expected
    /\ shadow' = IF r.gateway_calls = 2 /\ g.raised THEN shadow ELSE rs.history
    /\ lastFailed' = IF r.gateway_calls = 2 /\ g.raised
                     THEN FailureOf(text) ELSE NoFailure

\* POST /chat: routes.chat calls chat_service.handle_chat(user_message); the
\* conversations explored hold at most maxPairs turns
ChatWithin(maxPairs, m, eo, ro, template_exists) ==
    /\ call.op = "idle"
    /\ \E text \in {IF m.isNone THEN <<>> ELSE Strip(m.s)} :
         \E isReset \in {\E k \in ResetKeywords : Lower(text) = Lower(k)} :
           /\ Len(history) < 1 + 2 * maxPairs \/ text = <<>> \/ isReset
           /\ \E r  \in {handle_chat(history, client, repo, m, eo, ro, template_exists)},
                 rs \in {handle_chat(shadow, client, repo, m, eo, ro, template_exists)},
                 g  \in {generate_reply(client, ro)} :
                Served(m, eo, ro, template_exists, text, isReset, r, rs, g)
    /\ UNCHANGED <<client, repo, parseIn, parseOp, parseOut, repoCall, houseRepo, inflight>>

Chat(m, eo, ro, template_exists) == ChatWithin(MaxPairs, m, eo, ro, template_exists)

\* QueryParser(client).parse(history, current_input) on the service's history
Parse(m, eo) ==
    /\ call.op = "idle"
    /\ \E r \in {QueryParser_parse(client, history, m, eo)} :
         call' = [Idle EXCEPT !.op = "parse", !.input = m,
                    !.eo = IF r.gateway_calls = 1 THEN eo ELSE NotContacted,
                    !.before = history,
                    !.ret = IF r.exc = "" THEN Return(<<>>) ELSE Raise(r.exc),
                    !.params = r.q, !.gateway_calls = r.gateway_calls,
                    !.nlu_prompt = IF r.gateway_calls = 1
                                   THEN ParserPrompt(history, Trimmed(m)) ELSE <<>>,
                    !.calls = IF r.gateway_calls = 1
                              THEN <<"generate_reply">> ELSE <<>>]
    /\ UNCHANGED <<history, client, repo, expected, shadow, lastFailed,
                   parseIn, parseOp, parseOut, repoCall, houseRepo, inflight>>

\* routes.chat returns the JSON response
Respond ==
    /\ call.op # "idle"
    /\ call' = Idle
    /\ UNCHANGED <<history, client, repo, expected, shadow, lastFailed,
                   parseIn, parseOp, parseOut, repoCall, houseRepo, inflight>>

Next ==
    \/ \E m \in UserInputs, eo \in ExtractionOutcomes(client),
          ro \in ReplyOutcomes(client), template_exists \in BOOLEAN :
            Chat(m, eo, ro, template_exists)
    \/ \E m \in UserInputs, eo \in ExtractionOutcomes(client) : Parse(m, eo)
    \/ Respond

Spec == Init /\ [][Next]_vars

(***************************************************************************)
(* The parsing functions on decoded values: the specification draws the    *)
(* value json.loads returned and applies one function to it.               *)
(***************************************************************************)
Absent == [t |-> "absent", b |-> FALSE, n |-> 0, s |-> <<>>]

IntentValues ==
    { Absent, JBool(TRUE), JBool(FALSE), JNull, JInt(0), JStr(<<"n", "o">>), JList(0) }

AreaValues ==
    { Absent, JNull, JStr(<<>>), JStr(<<" ", "\t">>), JStr(NanShan),
      JStr(<<" ">> \o NanShan \o <<"\n">>), JInt(5), JFloat(25), JBool(TRUE),
      JList(0), JList(2), JDict(1) }

MaxPriceValues ==
    { Absent, JNull, JStr(<<>>), JInt(0), JInt(4000), JInt(-1),
      JStr(<<"4", "0", "0", "0">>), JStr(<<" ", "-", "5", "0", "\n">>),
      JStr(<<"a", "b", "c">>), JStr(<<"1", "2", ".", "5">>),
      JFloat(40005), JFloat(-15), JInf, JNaN, JBool(TRUE), JList(1), JDict(0) }

\* the members of a JSON object with up to three keys
Members(search_intent, area, max_price) ==
    LET all == [search_intent |-> search_intent, area |-> area, max_price |-> max_price]
    IN  [k \in {key \in DOMAIN all : all[key] # Absent} |-> all[k]]

DecodedInputs ==
    { Obj(Members(si, ar, mp)) :
        si \in IntentValues, ar \in AreaValues, mp \in MaxPriceValues }
    \cup { NonObj(v) : v \in {JNull, JInt(1), JStr(NanShan), JList(2), JBool(TRUE)} }

InitParse ==
    /\ history = InitialHistory
    /\ client = "OpenAIClient"
    /\ repo = NoRepo
    /\ call = Idle
    /\ expected = <<>>
    /\ shadow = InitialHistory
    /\ lastFailed = NoFailure
    /\ parseIn \in DecodedInputs
    /\ parseOp = "none"
    /\ parseOut = Returns(DefaultQuery)
    /\ repoCall = NoStoreCall
    /\ houseRepo = NoInstance
    /\ inflight = NoRequests

Applied(op, out) ==
    /\ parseOp = "none"
    /\ parseOp' = op
    /\ parseOut' = out
    /\ UNCHANGED <<history, client, repo, call, expected, shadow, lastFailed,
                   parseIn, repoCall, houseRepo, inflight>>

\* HouseSearchQuery.from_dict(parseIn)
ApplyFromDict == Applied("from_dict", from_dict(parseIn))

\* QueryParser.parse when the gateway text decodes to parseIn
ApplyParse == Applied("parse", parse_decoded(parseIn))

\* ChatService._extract_query_params when the gateway text decodes to parseIn
ApplyExtract == Applied("extract", extract_decoded(parseIn))

NextParse == ApplyFromDict \/ ApplyParse \/ ApplyExtract

ParseSpec == InitParse /\ [][NextParse]_vars

(***************************************************************************)
(* HouseRepository.query_houses on its own: the specification draws a      *)
(* catalog and the explicit arguments, and applies one call.               *)
(***************************************************************************)
\* longest catalog drawn
MaxCatalog == 4

\* the records a catalog is drawn from: equal prices, a price held as a
\* numeric string, a price that int() rejects, upper and lower case locations
Listings ==
    { House(1, NanShan, <<"h", "h">>,      <<"1b">>, JInt(3000),                 <<"quiet">>),
      House(2, FuTian,  <<"H", "H">>,      <<"1b">>, JInt(3000),                 <<"new">>),
      House(3, NanShan, <<" ", "s", "k">>, <<"2b">>, JInt(4500),                 <<"sea">>),
      House(4, FuTian,  <<"g", "x">>,      <<"3b">>, JStr(<<"2", "0", "0", "0">>), <<"mall">>),
      House(5, NanShan, <<"k", "j">>,      <<"1b">>, JStr(<<"a", "b", "c">>),    <<"metro">>) }

\* list(MOCK_HOUSES) of __init__: any order of distinct records
Catalogs ==
    UNION { { c \in [1..n -> Listings] : \A i, j \in 1..n : c[i] = c[j] => i = j } :
            n \in 0..MaxCatalog }

AreaArgs ==
    { JNull, JStr(<<" ">>), JStr(<<" ">> \o NanShan \o <<"\n">>), JStr(FuTian),
      JStr(<<"H">>), JStr(<<"s", "k">>) }

MaxPriceArgs == { JNull, JInt(3000), JInt(4000) }

QueryArgs ==
    { NoQuery,
      QueryObject(HouseSearchQuery(TRUE, JStr(NanShan), JInt(4500))),
      QueryObject(HouseSearchQuery(TRUE, JNull, JNull)) }

InitStore ==
    /\ history = InitialHistory
    /\ client = "OpenAIClient"
    /\ repo = NoRepo
    /\ call = Idle
    /\ expected = <<>>
    /\ shadow = InitialHistory
    /\ lastFailed = NoFailure
    /\ parseIn = NonObj(JNull)
    /\ parseOp = "none"
    /\ parseOut = Returns(DefaultQuery)
    /\ houseRepo = NoInstance
    /\ inflight = NoRequests
    /\ \E c \in Catalogs, a \in AreaArgs, m \in MaxPriceArgs :
         repoCall = [NoStoreCall EXCEPT !.catalog = c, !.area = a, !.max_price = m]

\* repository.query_houses(query, area=repoCall.area, max_price=repoCall.max_price)
QueryHouses(query) ==
    /\ repoCall.op = "none"
    /\ \E found \in {HouseRepository_query_houses(repoCall.catalog, query,
                                                   repoCall.area, repoCall.max_price)} :
         repoCall' = [repoCall EXCEPT !.op = "query_houses", !.query = query,
                                      !.out = found]
    /\ UNCHANGED <<history, client, repo, call, expected, shadow, lastFailed,
                   parseIn, parseOp, parseOut, houseRepo, inflight>>

NextStore == \E query \in QueryArgs : QueryHouses(query)

StoreSpec == InitStore /\ [][NextStore]_vars

(***************************************************************************)
(* A HouseRepository in use.  _data is the list of the catalog's dicts; a  *)
(* caller queries it several times, keeps the list returned by the latest  *)
(* query and assigns to fields of the dicts in it.  A held dict is the     *)
(* dict at position obj of _data, or a dict of its own when obj is 0.      *)
(***************************************************************************)
\* queries made on one repository
MaxQueries == 3

\* results.append(house): the dict of the catalog itself is returned
dict_house_same_object(data, house) ==
    [obj |-> CHOOSE i \in 1..Len(data) : data[i] = house, rec |-> house]

\* dict(house) of line 84: a new dict with the items of the listing
dict_house(data, house) == [obj |-> 0, rec |-> house]

InstanceAreaArgs     == { JNull, JStr(NanShan), JStr(FuTian) }
InstanceMaxPriceArgs == { JNull, JInt(4000) }

\* the assignments the caller makes: record[field] = value
CallerEdits ==
    { [field |-> "price", value |-> JInt(1000)],
      [field |-> "area",  value |-> FuTian] }

InitInstance ==
    /\ history = InitialHistory
    /\ client = "OpenAIClient"
    /\ repo = NoRepo
    /\ call = Idle
    /\ expected = <<>>
    /\ shadow = InitialHistory
    /\ lastFailed = NoFailure
    /\ parseIn = NonObj(JNull)
    /\ parseOp = "none"
    /\ parseOut = Returns(DefaultQuery)
    /\ repoCall = NoStoreCall
    /\ houseRepo = [NoInstance EXCEPT !.data = MOCK_HOUSES, !.constructed = MOCK_HOUSES]
    /\ inflight = NoRequests

\* top = repository.query_houses(area=area, max_price=max_price)
RepoQuery(area, max_price) ==
    /\ houseRepo.queries < MaxQueries
    /\ \E found \in {HouseRepository_query_houses(houseRepo.data, NoQuery,
                                                   area, max_price)} :
         houseRepo' =
             [houseRepo EXCEPT
                !.op = "query_houses", !.area = area, !.max_price = max_price,
                !.out = found,
                !.held = [i \in 1..Len(found.houses) |->
                            dict_house(houseRepo.data, found.houses[i])],
                !.log = @ \cup {[area |-> area, max_price |-> max_price, out |-> found]},
                !.repeated = \E e \in houseRepo.log :
                                e.area = area /\ e.max_price = max_price,
                !.edited_before = houseRepo.edited,
                !.queries = @ + 1]
    /\ UNCHANGED <<history, client, repo, call, expected, shadow, lastFailed,
                   parseIn, parseOp, parseOut, repoCall, inflight>>

\* top[i][field] = value, made by the caller on a record it was returned
CallerAssigns(i, e) ==
    /\ i \in 1..Len(houseRepo.held)
    /\ houseRepo.held[i].rec[e.field] # e.value
    /\ houseRepo' =
           [houseRepo EXCEPT
              !.held[i].rec[e.field] = e.value,
              !.data = IF houseRepo.held[i].obj = 0 THEN @
                       ELSE [@ EXCEPT ![houseRepo.held[i].obj][e.field] = e.value],
              !.edited = TRUE]
    /\ UNCHANGED <<history, client, repo, call, expected, shadow, lastFailed,
                   parseIn, parseOp, parseOut, repoCall, inflight>>

NextInstance ==
    \/ \E area \in InstanceAreaArgs, max_price \in InstanceMaxPriceArgs :
         RepoQuery(area, max_price)
    \/ \E i \in 1..TopK, e \in CallerEdits : CallerAssigns(i, e)

InstanceSpec == InitInstance /\ [][NextInstance]_vars

(***************************************************************************)
(* Requests served at the same time.  run.py starts the development server *)
(* of Flask, which serves each request on a thread of its own, and every   *)
(* thread calls handle_chat on the one ChatService of routes.py.  A thread *)
(* is at "idle", at "generate_reply" (line 182, waiting for the gateway),  *)
(* at "append_user" (line 183 is next) or at "append_assistant" (line 184  *)
(* is next); history is the list self.history refers to.                   *)
(***************************************************************************)
\* requests accepted by the server
MaxRequests == 3

ConcurrentInputs ==
    { NoneMsg,
      UserMsg(<<" ", "H", "i", "\n">>),
      UserMsg(<<"R", "e", "s", "e", "t">>) }

InitConcurrent ==
    /\ history = InitialHistory
    /\ client = "BaseLLMClient"
    /\ repo = NoRepo
    /\ call = Idle
    /\ expected = <<>>
    /\ shadow = InitialHistory
    /\ lastFailed = NoFailure
    /\ parseIn = NonObj(JNull)
    /\ parseOp = "none"
    /\ parseOut = Returns(DefaultQuery)
    /\ repoCall = NoStoreCall
    /\ houseRepo = NoInstance
    /\ inflight = NoRequests

\* lines 126-176 on thread t: the blank input returns, the reset keyword
\* assigns the initial history and returns, any other text goes through the
\* extraction and builds the message list from the history as it is now
Receive(t, m) ==
    /\ inflight.threads[t].pc = "idle"
    /\ inflight.requests < MaxRequests
    /\ \E text \in {chat_text(m)} :
         IF text = <<>>
         THEN /\ inflight' = [inflight EXCEPT !.requests = @ + 1]
              /\ UNCHANGED history
         ELSE IF IsResetKeyword(text)
         THEN /\ history' = InitialHistory
              /\ inflight' = [inflight EXCEPT !.requests = @ + 1, !.owners = <<0>>,
                                               !.resets = @ + 1]
         ELSE /\ inflight' =
                    [inflight EXCEPT
                       !.requests = @ + 1,
                       !.threads[t] =
                           [pc |-> "generate_reply", text |-> text,
                            messages |-> build_chat_messages(history, text, NoContext,
                                                             FALSE, TRUE).messages,
                            reply |-> <<>>, req |-> inflight.requests + 1]]
              /\ UNCHANGED history
    /\ UNCHANGED <<client, repo, call, expected, shadow, lastFailed,
                   parseIn, parseOp, parseOut, repoCall, houseRepo>>

\* line 182 on thread t: the gateway answers or raises; a raise is caught at
\* line 187 and the busy message returned
GatewayAnswers(t, ro) ==
    /\ inflight.threads[t].pc = "generate_reply"
    /\ \E g \in {generate_reply(client, ro)} :
         inflight' =
             [inflight EXCEPT
                !.threads[t] = IF g.raised THEN IdleThread
                               ELSE [@ EXCEPT !.pc = "append_user", !.reply = g.text]]
    /\ UNCHANGED <<history, client, repo, call, expected, shadow, lastFailed,
                   parseIn, parseOp, parseOut, repoCall, houseRepo>>

\* line 183 on thread t
AppendUser(t) ==
    /\ inflight.threads[t].pc = "append_user"
    /\ history' = Append(history, Msg("user", inflight.threads[t].text))
    /\ inflight' = [inflight EXCEPT !.threads[t].pc = "append_assistant",
                                    !.owners = Append(@, inflight.threads[t].req)]
    /\ UNCHANGED <<client, repo, call, expected, shadow, lastFailed,
                   parseIn, parseOp, parseOut, repoCall, houseRepo>>

\* lines 184-186 on thread t
AppendAssistant(t) ==
    /\ inflight.threads[t].pc = "append_assistant"
    /\ history' = Append(history, Msg("assistant", inflight.threads[t].reply))
    /\ inflight' = [inflight EXCEPT !.threads[t] = IdleThread,
                                    !.owners = Append(@, inflight.threads[t].req)]
    /\ UNCHANGED <<client, repo, call, expected, shadow, lastFailed,
                   parseIn, parseOp, parseOut, repoCall, houseRepo>>

NextConcurrent ==
    \E t \in Threads :
       \/ \E m \in ConcurrentInputs : Receive(t, m)
       \/ \E ro \in ReplyOutcomes(client) : GatewayAnswers(t, ro)
       \/ AppendUser(t)
       \/ AppendAssistant(t)

ConcurrentSpec == InitConcurrent /\ [][NextConcurrent]_vars

(***************************************************************************)
(* The turn machine in a search dialogue: the user names a region, then a  *)
(* budget; the model answers the extraction with one of the queries such a *)
(* dialogue can lead to; the repository is absent, the shipped one, or one *)
(* constructed on a catalog holding a record whose price is no number.     *)
(***************************************************************************)
REGION_INPUT == UserMsg(FuTian)
\* "budget within 5000"
BUDGET_INPUT ==
    UserMsg(<<"U+9884", "U+7B97", "5", "0", "0", "0", "U+4EE5", "U+5185">>)

SearchInputs == { REGION_INPUT, BUDGET_INPUT }

SearchExtractionOutcomes(cl) ==
    IF cl = "OpenAIClient_no_key" THEN {NotContacted}
    ELSE { BackendContent(<<DOC_NO_INTENT>>),
           BackendContent(<<DOC_FUTIAN>>),
           BackendContent(<<DOC_BUDGET>>),
           BackendContent(<<DOC_FUTIAN_BUDGET>>),
           BackendContent(<<DOC_FUTIAN_CHEAP>>) }

SearchReplyOutcomes(cl) ==
    CASE cl = "OpenAIClient_no_key" -> {NotContacted}
      [] cl = "OpenAIClient" ->
           { BackendException(TIMEOUT), BackendContent(<<"o", "k">>),
             BackendContent(<<" ", "\n">>) }
      [] cl = "BaseLLMClient" ->
           { BackendException(TIMEOUT), BackendContent(<<"o", "k">>) }

\* a catalog given to the repository with a price that int() rejects
UNPRICED_HOUSES ==
    << House(1, FuTian,  <<"g", "x">>, <<"1b">>, JStr(<<"a", "b", "c">>), <<"mall">>),
       House(2, NanShan, <<"h", "h">>, <<"2b">>, JInt(3000),              <<"quiet">>) >>

InitSearch ==
    /\ history = InitialHistory
    /\ client \in Clients
    /\ repo \in {NoRepo, Repo(MOCK_HOUSES), Repo(UNPRICED_HOUSES)}
    /\ call = Idle
    /\ expected = <<>>
    /\ shadow = InitialHistory
    /\ lastFailed = NoFailure
    /\ parseIn = NonObj(JNull)
    /\ parseOp = "none"
    /\ parseOut = Returns(DefaultQuery)
    /\ repoCall = NoStoreCall
    /\ houseRepo = NoInstance
    /\ inflight = NoRequests

NextSearch ==
    \/ \E m \in SearchInputs, eo \in SearchExtractionOutcomes(client),
          ro \in SearchReplyOutcomes(client), template_exists \in BOOLEAN :
            Chat(m, eo, ro, template_exists)
    \/ \E m \in SearchInputs, eo \in SearchExtractionOutcomes(client) : Parse(m, eo)
    \/ Respond

SearchSpec == InitSearch /\ [][NextSearch]_vars

(***************************************************************************)
(* The turn machine in a conversation long enough for the history to       *)
(* exceed the window of _build_chat_messages: one client, no repository,   *)
(* the model reporting no search intent.                                   *)
(***************************************************************************)
\* turns of the long conversation
MaxLongPairs == 6

LongInputs ==
    { UserMsg(<<" ", "H", "i", "\n">>),
      UserMsg(<<"r", "e", "s", "e", "t", "s">>),
      UserMsg(<<"r", "e", "s", "e", "t">>) }

InitLong ==
    /\ history = InitialHistory
    /\ client = "BaseLLMClient"
    /\ repo = NoRepo
    /\ call = Idle
    /\ expected = <<>>
    /\ shadow = InitialHistory
    /\ lastFailed = NoFailure
    /\ parseIn = NonObj(JNull)
    /\ parseOp = "none"
    /\ parseOut = Returns(DefaultQuery)
    /\ repoCall = NoStoreCall
    /\ houseRepo = NoInstance
    /\ inflight = NoRequests

NextLong ==
    \/ \E m \in LongInputs, ro \in ReplyOutcomes(client), template_exists \in BOOLEAN :
         ChatWithin(MaxLongPairs, m, BackendContent(<<DOC_NO_INTENT>>), ro,
                    template_exists)
    \/ Respond

LongSpec == InitLong /\ [][NextLong]_vars

(***************************************************************************)
(* Properties.                                                             *)
(***************************************************************************)
RECURSIVE Turns(_)
Turns(pairs) ==
    IF pairs = <<>> THEN <<>>
    ELSE <<Msg("user", pairs[1].user), Msg("assistant", pairs[1].reply)>>
         \o Turns(Tail(pairs))

\* the input is None or consists of whitespace only
BlankInput(m) == m.isNone \/ \A i \in 1..Len(m.s) : m.s[i] \in Whitespace

\* a and b are equal up to the case of their letters
SameIgnoringCase(a, b) ==
    Len(a) = Len(b) /\ \A i \in 1..Len(a) : LowerChar(a[i]) = LowerChar(b[i])

\* the trimmed input is a reset keyword, whatever the case of its letters
ResetInput(m) ==
    ~m.isNone /\ \E k \in ResetKeywords : SameIgnoringCase(Strip(m.s), k)

\* the call served was a turn that reached the reply request
ReplyRequested == call.op = "chat" /\ call.gateway_calls = 2

\* the gateway call for the reply raised
ReplyRaised == ReplyRequested /\ generate_reply(client, call.ro).raised

IsBusyMessage(ret, e) ==
    /\ ret.kind = "return"
    /\ ret.text # <<>>
    /\ Head(ret.text) = "[system-busy-try-later:]"
    /\ Contains(ret.text, e)

\* C1: with calls made one at a time, history is the greeting followed by the
\* (trimmed input, reply) pairs of the answered turns since the last reset, in
\* call order; its first element is the greeting and every user turn is
\* directly followed by an assistant turn.
C1_HistoryIsGreetingThenPairs ==
    /\ history = <<Msg("assistant", GREETING)>> \o Turns(expected)
    /\ history[1] = Msg("assistant", GREETING)
    /\ \A i \in 1..Len(history) :
         history[i].role = "user" =>
            i < Len(history) /\ history[i + 1].role = "assistant"

\* two different turns have been recorded, the second by the call served
C1_Witness ==
    /\ Len(expected) = 2
    /\ expected[1].user # expected[2].user
    /\ call.op = "chat"
    /\ Len(call.before) = 3
    /\ Len(history) = 5

\* C2: when the gateway call for the final reply raises, handle_chat returns the
\* busy message containing the error text and history is what it was before
\* the call.
C2_RaiseGivesBusyAndKeepsHistory ==
    ReplyRaised =>
        /\ IsBusyMessage(call.ret, call.ro.text)
        /\ history = call.before

C2_Witness ==
    /\ ReplyRaised
    /\ Len(call.before) = 3
    /\ call.ret = Return(BusyMessage(TIMEOUT))

\* C3: when the reply request made through OpenAIClient.generate_reply fails
\* (an error of the API call such as a network error, an auth error or a
\* timeout, or an empty result), handle_chat returns the busy message and
\* leaves history as it was: the failure is not recorded as an assistant turn.
C3_GatewayFailureIsBusyAndUnrecorded ==
    ( /\ ReplyRequested
      /\ client = "OpenAIClient"
      /\ call.ro.kind \in {"exception", "no_choices", "content_none"} )
    => /\ IsBusyMessage(call.ret, call.ro.text)
       /\ history = call.before

\* C4: for every input whose trimmed text is empty (None included), handle_chat
\* returns the fixed prompt, leaves history unchanged and calls neither the
\* gateway, the store nor the prompt renderer.
C4_BlankInputIsNoOp ==
    (call.op = "chat" /\ BlankInput(call.input)) =>
        /\ call.ret = Return(EMPTY_PROMPT)
        /\ history = call.before
        /\ call.gateway_calls = 0
        /\ call.store_calls = 0
        /\ call.render_calls = 0

C4_Witness ==
    /\ call.op = "chat"
    /\ call.input = UserMsg(<<" ", "\t", "\n">>)
    /\ Len(history) = 3

\* C5: for every input whose trimmed text equals a reset keyword up to case,
\* handle_chat sets history to the one-element greeting whatever its length
\* was, returns the confirmation and calls no other component.
C5_ResetKeywordResets ==
    (call.op = "chat" /\ ResetInput(call.input)) =>
        /\ history = <<Msg("assistant", GREETING)>>
        /\ call.ret = Return(RESET_DONE)
        /\ call.gateway_calls = 0
        /\ call.store_calls = 0
        /\ call.render_calls = 0

C5_Witness ==
    /\ call.op = "chat"
    /\ call.input = UserMsg(<<" ", "R", "e", "S", "E", "T", "\n">>)
    /\ Len(call.before) = 5
    /\ Len(history) = 1

DegenerateExtraction ==
    /\ call.gateway_calls >= 1
    /\ \/ generate_reply(client, call.eo).raised
       \/ json_loads(StripFences(generate_reply(client, call.eo).text)).exc # ""
       \/ ~json_loads(StripFences(generate_reply(client, call.eo).text)).data.isdict

\* C7: intent extraction never raises: when the gateway raises, returns text
\* that is not valid JSON or returns a JSON value that is not an object,
\* _extract_query_params and QueryParser.parse return the all-defaults query,
\* and the turn goes on to the reply step without a store query: the prompt is
\* rendered and, when the renderer returns, the gateway is called for the
\* reply.
C7_ExtractionNeverRaises ==
    /\ (call.op = "chat" /\ DegenerateExtraction) =>
          /\ call.params = DefaultQuery
          /\ call.store_calls = 0
          /\ call.render_calls = 1
          /\ call.template_exists => call.gateway_calls = 2
          /\ ~call.template_exists => call.ret = Raise("TemplateNotFound")
    /\ (call.op = "parse" /\ DegenerateExtraction) =>
          /\ call.ret = Return(<<>>)
          /\ call.params = DefaultQuery

\* the extraction call raised and the turn was answered
C7_Witness ==
    /\ call.op = "chat"
    /\ call.gateway_calls = 2
    /\ generate_reply(client, call.eo).raised
    /\ call.ret.kind = "return"
    /\ Len(history) = Len(call.before) + 2

WellFormedQuery(q) ==
    /\ q.search_intent \in BOOLEAN
    /\ q.area.t \in {"null", "str"}
    /\ q.max_price.t \in {"null", "int"}

\* C8: HouseSearchQuery.from_dict, and QueryParser.parse which calls it
\* outside its try block, never raise and return a well-formed query for any
\* decoded JSON input: search_intent a boolean, area null or a string,
\* max_price null or an integer.
C8_ParsingNeverRaisesAndIsWellFormed ==
    parseOp \in {"from_dict", "parse"} =>
        /\ parseOut.exc = ""
        /\ WellFormedQuery(parseOut.q)

\* the area member of the decoded input, None when absent
InputArea == IF parseIn.isdict THEN Get(parseIn.d, "area", JNull) ELSE JNull

\* C9: after parsing, the region is null or a non-empty trimmed string; an
\* empty string, a whitespace-only string and any non-string value resolve to
\* null.
C9_RegionNullOrTrimmedString ==
    (parseOp \in {"from_dict", "extract"} /\ parseOut.exc = "") =>
        /\ \/ parseOut.q.area = JNull
           \/ /\ parseOut.q.area.t = "str"
              /\ parseOut.q.area.s # <<>>
              /\ Strip(parseOut.q.area.s) = parseOut.q.area.s
        /\ (InputArea.t # "str" \/ Strip(InputArea.s) = <<>>) => parseOut.q.area = JNull

\* the valid queries: a boolean, null or a non-empty trimmed string, null or
\* an integer
ValidQueries ==
    { HouseSearchQuery(b, a, p) :
        b \in BOOLEAN,
        a \in {x \in AreaValues : x = JNull \/ (x.t = "str" /\ x.s # <<>> /\ Strip(x.s) = x.s)},
        p \in {x \in MaxPriceValues : x.t \in {"null", "int"}} }

\* the dictionary of the three fields of q
AsDict(q) ==
    Obj([search_intent |-> JBool(q.search_intent), area |-> q.area,
         max_price |-> q.max_price])

\* C10: from_dict applied to the dictionary of the three fields of a valid
\* query returns that query.
C10_FromDictRoundTrip ==
    \A q \in ValidQueries :
        (parseOp = "from_dict" /\ parseIn = AsDict(q)) => parseOut = Returns(q)

\* the round trip of a query whose max_price is 0
C10_Witness ==
    /\ parseOp = "from_dict"
    /\ parseIn = AsDict(HouseSearchQuery(TRUE, JStr(NanShan), JInt(0)))
    /\ parseOut = Returns(HouseSearchQuery(TRUE, JStr(NanShan), JInt(0)))

(***************************************************************************)
(* Properties of query_houses.                                             *)
(***************************************************************************)
\* the integer a price stands for, where it stands for one
HasIntegerPrice(h) == PyInt(h.price).exc = ""
PriceOf(h)         == PyInt(h.price).n

\* the filters in force: an explicit non-null argument, else the query's field
EffectiveArea ==
    IF repoCall.area.t # "null" THEN repoCall.area
    ELSE IF repoCall.query.present THEN repoCall.query.q.area ELSE JNull

EffectiveMaxPrice ==
    IF repoCall.max_price.t # "null" THEN repoCall.max_price
    ELSE IF repoCall.query.present THEN repoCall.query.q.max_price ELSE JNull

\* s occurs in t as a block of consecutive characters, case kept
OccursIn(s, t) ==
    \E k \in 0..(Len(t) - Len(s)) : \A i \in 1..Len(s) : t[k + i] = s[i]

AreaFilterAbsent(area) ==
    area.t = "null" \/ \A i \in 1..Len(area.s) : area.s[i] \in Whitespace

\* the listing satisfies both filters
IsMatch(h, area, max_price) ==
    /\ \/ AreaFilterAbsent(area)
       \/ OccursIn(Strip(area.s), Strip(h.area))
       \/ OccursIn(Strip(area.s), Strip(h.location))
    /\ max_price.t = "null" \/ PriceOf(h) <= max_price.n

\* the matching listings with an integer price, in catalog order
MatchesOf(catalog, area, max_price) ==
    SelectSeq(catalog, LAMBDA h : HasIntegerPrice(h) /\ IsMatch(h, area, max_price))

\* place of the i-th listing in the price-ascending stable order
StableRank(hs, i) ==
    1 + Cardinality({j \in 1..Len(hs) : PriceOf(hs[j]) < PriceOf(hs[i])})
      + Cardinality({j \in 1..(i - 1) : PriceOf(hs[j]) = PriceOf(hs[i])})

StableAscending(hs) ==
    [p \in 1..Len(hs) |-> hs[CHOOSE i \in 1..Len(hs) : StableRank(hs, i) = p]]

FirstThree(hs) == SubSeq(hs, 1, IF Len(hs) < 3 THEN Len(hs) ELSE 3)

QueryReturned == repoCall.op = "query_houses" /\ repoCall.out.exc = ""

\* C11: whenever query_houses returns, it returns at most 3 listings in
\* non-decreasing price order, namely the first three of the price-ascending
\* stable sort of the matching listings (equal prices keep catalog order); on
\* a catalog whose prices are all integers it always returns.
C11_TopThreeByPriceStable ==
    /\ repoCall.op = "query_houses"
         /\ (\A i \in 1..Len(repoCall.catalog) : HasIntegerPrice(repoCall.catalog[i]))
       => repoCall.out.exc = ""
    /\ QueryReturned =>
         /\ Len(repoCall.out.houses) <= 3
         /\ \A i \in 1..(Len(repoCall.out.houses) - 1) :
              PriceOf(repoCall.out.houses[i]) <= PriceOf(repoCall.out.houses[i + 1])
         /\ repoCall.out.houses =
              FirstThree(StableAscending(
                  MatchesOf(repoCall.catalog, EffectiveArea, EffectiveMaxPrice)))

\* four listings match, two of the returned ones have the same price and the
\* catalog lists them in the order opposite to their ids
C11_Witness ==
    /\ QueryReturned
    /\ Len(MatchesOf(repoCall.catalog, EffectiveArea, EffectiveMaxPrice)) = 4
    /\ Len(repoCall.out.houses) = 3
    /\ \E i \in 1..2 :
         /\ PriceOf(repoCall.out.houses[i]) = PriceOf(repoCall.out.houses[i + 1])
         /\ repoCall.out.houses[i].id > repoCall.out.houses[i + 1].id

\* C12: query_houses never fails on a listing whose price is no integer and
\* never returns such a listing, also when max_price is null and the region
\* matches.
C12_UnparsablePriceExcluded ==
    repoCall.op = "query_houses" =>
        /\ repoCall.out.exc = ""
        /\ \A i \in 1..Len(repoCall.out.houses) : HasIntegerPrice(repoCall.out.houses[i])

\* C13: with a query object and explicit arguments each filter is resolved on
\* its own: an explicit non-null area or max_price is the filter in force, an
\* explicit null leaves the field of the query object in force.
C13_ExplicitArgumentsOverrideFieldByField ==
    repoCall.op = "query_houses" /\ repoCall.query.present =>
        repoCall.out =
            HouseRepository_query_houses(repoCall.catalog, NoQuery,
                                         EffectiveArea, EffectiveMaxPrice)

\* the query object says NanShan up to 4500, the call says FuTian and no
\* max_price: the FuTian listing is returned, the NanShan one at 3000 is not
C13_Witness ==
    /\ QueryReturned
    /\ repoCall.query = QueryObject(HouseSearchQuery(TRUE, JStr(NanShan), JInt(4500)))
    /\ repoCall.area = JStr(FuTian)
    /\ repoCall.max_price = JNull
    /\ Len(repoCall.catalog) = 4
    /\ \E i \in 1..Len(repoCall.catalog) :
         repoCall.catalog[i].area = NanShan /\ repoCall.catalog[i].price = JInt(3000)
    /\ Len(repoCall.out.houses) = 2
    /\ \A i \in 1..Len(repoCall.out.houses) : repoCall.out.houses[i].area = FuTian

\* C14: whenever query_houses returns, every returned listing satisfies the
\* area filter (absent, blank, or the trimmed keyword occurring with its case
\* in the trimmed area or location) and the max_price filter, and a matching
\* listing with an integer price is left out only by the truncation to three.
C14_ReturnedIffMatching ==
    QueryReturned =>
        /\ \A i \in 1..Len(repoCall.out.houses) :
             IsMatch(repoCall.out.houses[i], EffectiveArea, EffectiveMaxPrice)
        /\ \A i \in 1..Len(repoCall.catalog) :
             /\ HasIntegerPrice(repoCall.catalog[i])
             /\ IsMatch(repoCall.catalog[i], EffectiveArea, EffectiveMaxPrice)
             => \/ \E k \in 1..Len(repoCall.out.houses) :
                     repoCall.out.houses[k] = repoCall.catalog[i]
                \/ Len(repoCall.out.houses) = 3

\* the keyword H keeps the listing located at HH and drops the one at hh
C14_Witness ==
    /\ QueryReturned
    /\ EffectiveArea = JStr(<<"H">>)
    /\ EffectiveMaxPrice = JInt(3000)
    /\ \E i \in 1..Len(repoCall.catalog) : repoCall.catalog[i].location = <<"h", "h">>
    /\ Len(repoCall.out.houses) = 1
    /\ repoCall.out.houses[1].location = <<"H", "H">>

(***************************************************************************)
(* Properties of the steps of a turn.                                      *)
(***************************************************************************)
\* C15: in a turn that is neither blank nor a reset, the extraction step and
\* the store-query step never throw: the turn always reaches the reply
\* prompt, and no exception of query_houses escapes handle_chat.
C15_ExtractionAndStoreNeverThrow ==
    call.op = "chat" /\ call.gateway_calls >= 1 =>
        /\ call.render_calls = 1
        /\ call.ret.kind = "raise" => ~call.template_exists

\* the text cut at its line breaks
RECURSIVE SplitLines(_)
SplitLines(text) ==
    IF \A i \in 1..Len(text) : text[i] # "\n" THEN <<text>>
    ELSE LET k == CHOOSE i \in 1..Len(text) :
                    text[i] = "\n" /\ \A j \in 1..(i - 1) : text[j] # "\n"
         IN  <<SubSeq(text, 1, k - 1)>> \o SplitLines(SubSeq(text, k + 1, Len(text)))

\* the turn went past the store step: the store returned or was not called
ReachedPrompt == call.op = "chat" /\ call.render_calls = 1

\* what the store returns for the extracted query
Found ==
    FirstThree(StableAscending(
        MatchesOf(repo.data, call.params.area, call.params.max_price)))

\* the line names the listing
LineNames(line, h) ==
    /\ OccursIn(h.area, line)
    /\ OccursIn(h.location, line)
    /\ OccursIn(h.type, line)
    /\ OccursIn(PyStr(h.price), line)
    /\ OccursIn(h.desc, line)

\* C16: in every turn that goes past the store step, searched is true iff the
\* extracted search_intent is true and a store is configured, however many
\* listings the store returns; the listing context is present iff searched is
\* true and the store returned a listing, and then it is a heading followed by
\* one line per returned listing in the store's order, with nothing of a
\* listing that was not returned.
C16_SearchedAndContext ==
    ReachedPrompt =>
        /\ call.searched = (call.params.search_intent /\ repo.configured)
        /\ call.searched = (call.store_calls = 1)
        /\ call.house_context.present = (call.searched /\ Found # <<>>)
        /\ ~call.house_context.present => call.house_context.text = <<>>
        /\ call.house_context.present =>
             /\ Len(SplitLines(call.house_context.text)) = 1 + Len(Found)
             /\ \A i \in 1..Len(Found) :
                  LineNames(SplitLines(call.house_context.text)[i + 1], Found[i])
             /\ \A i \in 1..Len(repo.data) :
                  (\A k \in 1..Len(Found) : Found[k] # repo.data[i])
                  => ~OccursIn(repo.data[i].desc, call.house_context.text)

\* the store was asked and returned nothing: searched, without context
C16_Witness ==
    /\ ReachedPrompt
    /\ call.params = HouseSearchQuery(TRUE, JStr(FuTian), JInt(2000))
    /\ repo = Repo(MOCK_HOUSES)
    /\ call.store_calls = 1
    /\ call.searched
    /\ ~call.house_context.present
    /\ call.gateway_calls = 2

\* the same turn, on the same history and input, when the model reports no
\* search intent and a store is configured
TurnWithoutIntent ==
    handle_chat(call.before, client, Repo(MOCK_HOUSES), call.input,
                BackendContent(<<DOC_NO_INTENT>>), call.ro, call.template_exists)

\* C17: a turn with search intent and no store configured sends the gateway
\* the same messages, returns the same reply and leaves the same history as
\* the turn without search intent on the same history and input; it raises
\* nothing of its own.
C17_NoStoreIsNoSearch ==
    call.op = "chat" /\ call.params.search_intent /\ ~repo.configured =>
        /\ call.store_calls = 0
        /\ call.messages = TurnWithoutIntent.messages
        /\ call.ret = TurnWithoutIntent.ret
        /\ history = TurnWithoutIntent.history
        /\ call.template_exists => call.ret.kind = "return"

C17_Witness ==
    /\ call.op = "chat"
    /\ call.params = HouseSearchQuery(TRUE, JStr(FuTian), JInt(5000))
    /\ repo = NoRepo
    /\ call.gateway_calls = 2
    /\ call.ret = Return(<<"o", "k">>)
    /\ Len(call.before) = 3
    /\ Len(history) = 5

\* the turn before was the user naming the region, this one names the budget
BudgetAfterRegion ==
    /\ call.op \in {"chat", "parse"}
    /\ call.input = BUDGET_INPUT
    /\ call.gateway_calls >= 1
    /\ Len(call.before) >= 3
    /\ call.before[Len(call.before) - 1] = Msg("user", FuTian)

\* C18 as stated: after a turn that established the region, the query
\* extracted from a turn that names only a budget carries that region together
\* with the new budget.
C18_UnmentionedRegionPersists ==
    BudgetAfterRegion /\ call.params.search_intent =>
        /\ call.params.area = JStr(FuTian)
        /\ call.params.max_price = JInt(5000)

\* C18 as amended: the prompt of the second extraction contains the exchange
\* of the first turn and the new input, and the extracted query is the one the
\* model answers with: region and budget when the answer names both, a null
\* region when the answer leaves it null.
C18_ExtractionReportsTheModelsAnswer ==
    BudgetAfterRegion =>
        /\ OccursIn(<<"user", ":", " ">> \o FuTian \o <<"\n", "assistant", ":", " ">>
                    \o call.before[Len(call.before)].content,
                    call.nlu_prompt)
        /\ OccursIn(Strip(BUDGET_INPUT.s), call.nlu_prompt)
        /\ call.eo = BackendContent(<<DOC_FUTIAN_BUDGET>>) /\ client # "OpenAIClient_no_key"
           => call.params = HouseSearchQuery(TRUE, JStr(FuTian), JInt(5000))
        /\ call.eo = BackendContent(<<DOC_BUDGET>>) /\ client # "OpenAIClient_no_key"
           => call.params = HouseSearchQuery(TRUE, JNull, JInt(5000))

C18_Witness ==
    /\ BudgetAfterRegion
    /\ call.op = "chat"
    /\ call.eo = BackendContent(<<DOC_FUTIAN_BUDGET>>)
    /\ call.params = HouseSearchQuery(TRUE, JStr(FuTian), JInt(5000))
    /\ call.before[Len(call.before)].content = <<"o", "k">>

\* C19: OpenAIClient.generate_reply never raises and returns a non-empty
\* text, whatever the underlying call does.
C19_GatewayAlwaysReturnsText ==
    /\ call.op = "chat"
    /\ call.gateway_calls = 2
    /\ client \in {"OpenAIClient", "OpenAIClient_no_key"}
    => /\ ~generate_reply(client, call.ro).raised
       /\ generate_reply(client, call.ro).text # <<>>

\* C20: when the template is missing, the renderer's exception leaves
\* handle_chat as an exception, no reply is asked of the gateway and history is
\* what it was.
C20_TemplateMissingPropagates ==
    call.op = "chat" /\ call.render_calls = 1 /\ ~call.template_exists =>
        /\ call.ret = Raise("TemplateNotFound")
        /\ call.gateway_calls = 1
        /\ history = call.before

C20_Witness ==
    /\ call.op = "chat"
    /\ call.render_calls = 1
    /\ ~call.template_exists
    /\ call.ret.kind = "raise"
    /\ Len(call.before) = 3
    /\ call.searched

(***************************************************************************)
(* Properties of the message list of the reply call.                      *)
(***************************************************************************)
\* the reply call was made with call.messages
MessagesSent == call.op = "chat" /\ call.gateway_calls = 2

\* number of history messages in the list
SentHistoryLen == IF Len(call.before) < 10 THEN Len(call.before) ELSE 10

\* C21: the message list of the reply call is one system message, then the
\* last min(10, len(history)) history messages in their order, then the
\* trimmed input as a user message; it has at most 12 messages and history is
\* the one before the turn, with at most the turn's own pair appended.
C21_MessageListShape ==
    MessagesSent =>
        /\ Len(call.messages) = SentHistoryLen + 2
        /\ Len(call.messages) <= 12
        /\ call.messages[1].role = "system"
        /\ \A i \in 1..SentHistoryLen :
             call.messages[1 + i] = call.before[Len(call.before) - SentHistoryLen + i]
        /\ call.messages[Len(call.messages)] = Msg("user", Strip(call.input.s))
        /\ \/ history = call.before
           \/ /\ Len(history) = Len(call.before) + 2
              /\ SubSeq(history, 1, Len(call.before)) = call.before

\* a history of 11 messages: the list holds its last 10
C21_Witness ==
    /\ MessagesSent
    /\ Len(call.before) = 11
    /\ Len(call.messages) = 12
    /\ call.messages[2] = call.before[2]

\* C26: in the message list of the reply call the history messages alternate
\* between user and assistant and end with an assistant message, so that the
\* final user message follows an assistant message; when the window cuts the
\* history, the first history message of the list is a user message.
C26_SentHistoryAlternates ==
    MessagesSent =>
        /\ Len(call.messages) >= 3
        /\ \A i \in 2..(Len(call.messages) - 1) :
             call.messages[i].role \in {"user", "assistant"}
        /\ \A i \in 2..(Len(call.messages) - 1) :
             call.messages[i].role # call.messages[i + 1].role
        /\ call.messages[Len(call.messages) - 1].role = "assistant"
        /\ call.messages[Len(call.messages)].role = "user"
        /\ Len(call.before) > 10 => call.messages[2].role = "user"

C26_Witness ==
    /\ MessagesSent
    /\ Len(call.before) = 11
    /\ call.messages[2].role = "user"
    /\ call.messages[11].role = "assistant"
    /\ call.messages[12].role = "user"

(***************************************************************************)
(* Properties of the calls a turn makes.                                   *)
(***************************************************************************)
\* places of one collaborator in the calls of the turn
PlacesOf(name) == {i \in 1..Len(call.calls) : call.calls[i] = name}

\* C22: a turn calls the gateway at most twice and the store at most once; a
\* turn that is neither blank nor a reset begins with the one extraction
\* call, the store call, if made, comes second, and the reply call, if made,
\* comes last; a call that failed is not made again.
C22_AtMostOneCallPerStep ==
    call.op = "chat" =>
        /\ Cardinality(PlacesOf("generate_reply")) <= 2
        /\ Cardinality(PlacesOf("query_houses")) <= 1
        /\ Cardinality(PlacesOf("generate_reply")) = call.gateway_calls
        /\ Cardinality(PlacesOf("query_houses")) = call.store_calls
        /\ IF BlankInput(call.input) \/ ResetInput(call.input)
           THEN call.calls = <<>>
           ELSE /\ call.calls # <<>>
                /\ call.calls[1] = "generate_reply"
        /\ PlacesOf("query_houses") \subseteq {2}
        /\ PlacesOf("generate_reply") \subseteq {1, Len(call.calls)}
        /\ \A i \in PlacesOf("generate_reply") :
             i > 1 => PlacesOf("render_prompt") = {i - 1}

\* extraction, store query and reply call, the reply call raising
C22_Witness ==
    /\ call.op = "chat"
    /\ call.calls = <<"generate_reply", "query_houses", "render_prompt", "generate_reply">>
    /\ call.eo = BackendContent(FENCE_JSON \o <<"\n", DOC_NANSHAN, "\n">> \o FENCE)
    /\ IsBusyMessage(call.ret, TIMEOUT)
    /\ history = call.before

\* C23: QueryParser.parse on an input that is None or blank after trimming
\* returns the all-defaults query and does not call the gateway, whatever the
\* history.
C23_ParseBlankShortCircuits ==
    call.op = "parse" /\ BlankInput(call.input) =>
        /\ call.ret = Return(<<>>)
        /\ call.params = DefaultQuery
        /\ call.gateway_calls = 0
        /\ call.calls = <<>>
        /\ history = call.before

\* a whitespace-only input on a history of two turns, with a client whose
\* answer would have carried a query
C23_Witness ==
    /\ call.op = "parse"
    /\ call.input = UserMsg(<<" ", "\t", "\n">>)
    /\ client = "BaseLLMClient"
    /\ Len(call.before) = 5
    /\ call.gateway_calls = 0
    /\ call.params = DefaultQuery

Quiescent == \A t \in Threads : inflight.threads[t].pc = "idle"

\* C25: when calls of handle_chat on the one instance interleave, the history
\* is still the greeting followed by intact (user, assistant) pairs: once
\* every call has returned, each user message is followed at once by the
\* reply of the same call, and no assistant reply stands without its user
\* message, also when a reset ran during a turn in flight.
C25_InterleavedHistoryIntact ==
    Quiescent =>
        /\ Len(history) % 2 = 1
        /\ history[1] = Msg("assistant", GREETING)
        /\ \A k \in 1..((Len(history) - 1) \div 2) :
             /\ history[2 * k].role = "user"
             /\ history[2 * k + 1].role = "assistant"
             /\ inflight.owners[2 * k] = inflight.owners[2 * k + 1]

====
